---------------------------- MODULE Spec2Model ----------------------------
(***************************************************************************)
(* A model of buildFLUXGraph (src/unnamed/part_000): one build of the      *)
(* FLUX generation graph, taken step by step in the order of the source.   *)
(*                                                                         *)
(* The application state is a read-only snapshot, so each input is drawn   *)
(* at the step whose code consumes it; the value drawn there is the value  *)
(* the selectors at lines 42-65 returned.                                  *)
(*                                                                         *)
(* Graph, getPrefixedId, getGenerationMode and the add* sub-builders are   *)
(* imported by the source and are not part of it; they are modelled from   *)
(* the specification (Graph container, delegated collaborators).           *)
(* addFLUXLoRAs and addControlLoRA return nothing the builder reads and    *)
(* the specification does not describe them: the model leaves the graph    *)
(* as it is at those two calls.                                            *)
(***************************************************************************)
EXTENDS Integers, Sequences, FiniteSets, TLC

\* ------------------------------------------------------------------ bounds

\* user guidance values are 1..MaxGuidance
MaxGuidance == 2
\* control layers wired by addControlNets: 0..MaxControlNets
MaxControlNets == 1
\* global reference images of each kind (IP adapter, FLUX redux): 0..MaxRefImages
MaxRefImages == 1
\* regional guidance entities handled by addRegions: 0..MaxRegions
MaxRegions == 1
\* fixed-point denominator of strength and denoising_start: the real x is x / Scale
Scale == 60

\* ------------------------------------------------------- program constants

\* line 95: guidance = 30
FLUXFillGuidance == 30
\* line 167: the exponent 0.2 is 1 / RescaleRoot
RescaleRoot == 5

\* ------------------------------------------------------------------- state

VARIABLES
    pc,                         \* position in buildFLUXGraph
    manager,                    \* argument: TRUE iff manager is not null
    generationMode,             \* line 43
    model,                      \* line 54: NoModel or [base, variant]
    t5EncoderModel,             \* line 61: TRUE iff present
    clipEmbedModel,             \* line 62
    fluxVAE,                    \* line 60
    baseGuidance,               \* line 57
    guidance,                   \* line 74
    img2imgStrength,            \* line 63, fixed point
    optimizedDenoisingEnabled,  \* line 64
    denoising_start,            \* line 162, fixed point
    nextId,                     \* the ids getPrefixedId has handed out
    nodes,                      \* g: node id -> node
    edges,                      \* g: set of edges
    metadata,                   \* g: metadata record
    metadataReceivingNode,      \* g: set by setMetadataReceivingNode
    canvasOutput,               \* line 172
    controlNetCollector,        \* line 245
    addedControlNets,           \* line 257
    ipAdapterCollect,           \* line 273
    ipAdapterResult,            \* line 277: addedIPAdapters
    totalIPAdaptersAdded,       \* line 284
    fluxReduxCollect,           \* line 286
    fluxReduxResult,            \* line 290: addedFLUXReduxes
    totalReduxesAdded,          \* line 296
    regionsResult,              \* line 299
    shouldUseNSFWChecker,       \* line 331
    shouldUseWatermarker,       \* line 335
    result,                     \* what the caller receives: "none", "graph"
    error,                      \* what the caller catches: "none" or the error
    merges,                     \* history: the records given to upsertMetadata
    calls,                      \* history: the mode sub-builder calls made
    modeOutput                  \* history: canvasOutput right after line 242

vars == <<pc, manager, generationMode, model, t5EncoderModel, clipEmbedModel,
          fluxVAE, baseGuidance, guidance, img2imgStrength,
          optimizedDenoisingEnabled, denoising_start, nextId, nodes, edges,
          metadata, metadataReceivingNode, canvasOutput, controlNetCollector,
          addedControlNets, ipAdapterCollect, ipAdapterResult,
          totalIPAdaptersAdded, fluxReduxCollect, fluxReduxResult,
          totalReduxesAdded, regionsResult, shouldUseNSFWChecker, shouldUseWatermarker, result, error, merges,
          calls, modeOutput>>

\* the variables that hold the inputs read at lines 42-65
inputVars == <<generationMode, model, t5EncoderModel, clipEmbedModel, fluxVAE,
               baseGuidance>>

\* the variables of the graph g
graphVars == <<nextId, nodes, edges, metadata, metadataReceivingNode>>

\* the variables of the optional features, lines 244-327
featureVars == <<controlNetCollector, addedControlNets, ipAdapterCollect,
                 ipAdapterResult, totalIPAdaptersAdded, fluxReduxCollect,
                 fluxReduxResult, totalReduxesAdded, regionsResult>>

\* ------------------------------------------------------------ input domains

GenerationModes == {"txt2img", "img2img", "inpaint", "outpaint"}

NoModel == [base |-> "none", variant |-> "none"]

Models == {NoModel} \cup [base : {"flux", "sdxl"}, variant : {"normal", "inpaint"}]

Guidances == 1..MaxGuidance

\* strengths 0.5 (the specification's example) and 1
Strengths == {Scale \div 2, Scale}

NoNode == <<"none", 0>>

\* what selectCanvasMetadata may return: the canvas snapshot alone, or with
\* keys that earlier merges have written too
CanvasMetadatas ==
    { [canvas_v2_metadata |-> "canvas"],
      [canvas_v2_metadata |-> "canvas", generation_mode |-> "canvas",
       guidance |-> 0] }


\* ------------------------------------------------ Graph and id helpers

\* getPrefixedId: the prefix and a fresh suffix (n counts the ids handed out)
GetPrefixedId(prefix, n) == <<prefix, n>>

\* Graph.addNode
AddNode(ns, id, node) == ns @@ (id :> node)

\* Graph.addEdge
AddEdge(es, source, sourceField, dest, destField) ==
    es \cup {[source |-> source, sourceField |-> sourceField,
              dest |-> dest, destField |-> destField]}

\* Graph.deleteNode, the node set: the node is removed
DeleteNode(ns, id) == [i \in (DOMAIN ns) \ {id} |-> ns[i]]

\* Graph.deleteNode, the edge set: the edges from and to the node are removed
DeleteEdgesOf(es, id) == {e \in es : e.source # id /\ e.dest # id}

\* Graph.upsertMetadata: the given keys are added, a key already there is
\* overwritten
UpsertMetadata(md, m) == m @@ md

\* getGenerationMode: one of the four modes, decided by the canvas contents
GetGenerationMode(mgr) == GenerationModes

\* --------------------------------------------------------------- the build

Init ==
    /\ pc = "start"
    /\ manager \in BOOLEAN
    /\ generationMode = "txt2img"
    /\ model = NoModel
    /\ t5EncoderModel = FALSE
    /\ clipEmbedModel = FALSE
    /\ fluxVAE = FALSE
    /\ baseGuidance = 0
    /\ guidance = 0
    /\ img2imgStrength = 0
    /\ optimizedDenoisingEnabled = FALSE
    /\ denoising_start = 0
    /\ nextId = 0
    /\ nodes = << >>
    /\ edges = {}
    /\ metadata = << >>
    /\ metadataReceivingNode = NoNode
    /\ canvasOutput = NoNode
    /\ controlNetCollector = NoNode
    /\ addedControlNets = 0
    /\ ipAdapterCollect = NoNode
    /\ ipAdapterResult = 0
    /\ totalIPAdaptersAdded = 0
    /\ fluxReduxCollect = NoNode
    /\ fluxReduxResult = 0
    /\ totalReduxesAdded = 0
    /\ regionsResult = << >>
    /\ shouldUseNSFWChecker = FALSE
    /\ shouldUseWatermarker = FALSE
    /\ result = "none"
    /\ error = "none"
    /\ merges = << >>
    /\ calls = << >>
    /\ modeOutput = NoNode

\* the build throws: the caller catches the error and receives nothing
Throw(err) ==
    /\ pc' = "failed"
    /\ error' = err
    /\ result' = "none"

\* the build goes on to the step at next
Goto(next) ==
    /\ pc' = next
    /\ UNCHANGED <<error, result>>

\* lines 42-65: the generation mode, the model and the parameters are read
ReadState ==
    /\ pc = "start"
    /\ generationMode' \in GetGenerationMode(manager)
    /\ model' \in Models
    /\ t5EncoderModel' \in BOOLEAN
    /\ clipEmbedModel' \in BOOLEAN
    /\ fluxVAE' \in BOOLEAN
    /\ baseGuidance' \in Guidances
    /\ Goto("assert")
    /\ UNCHANGED <<manager, guidance, img2imgStrength,
                   optimizedDenoisingEnabled, denoising_start, graphVars,
                   canvasOutput, featureVars, shouldUseNSFWChecker,
                   shouldUseWatermarker, merges, calls, modeOutput>>

\* ModelsPresent without the assert on the VAE (line 71)
ModelsPresentNoVAE(m, t5, clip, vae) ==
    /\ m # NoModel
    /\ m.base = "flux"
    /\ t5
    /\ clip

\* lines 67-71: the five asserts all pass
ModelsPresent(m, t5, clip, vae) ==
    /\ m # NoModel
    /\ m.base = "flux"
    /\ t5
    /\ clip
    /\ vae

\* lines 67-71
AssertModels ==
    /\ pc = "assert"
    /\ IF ModelsPresent(model, t5EncoderModel, clipEmbedModel, fluxVAE)
         THEN Goto("fill_check")
         ELSE Throw("AssertionError")
    /\ UNCHANGED <<manager, inputVars, guidance, img2imgStrength,
                   optimizedDenoisingEnabled, denoising_start, graphVars,
                   canvasOutput, featureVars, shouldUseNSFWChecker,
                   shouldUseWatermarker, merges, calls, modeOutput>>

\* line 73
IsFLUXFill(m) == m.variant = "inpaint"

\* FillIncompatible with img2img left out of the test at line 88
FillIncompatibleT2IOnly(m, mode) ==
    IsFLUXFill(m) /\ mode = "txt2img"

\* line 88: FLUX Fill does not work with these modes
FillIncompatible(m, mode) ==
    IsFLUXFill(m) /\ mode \in {"txt2img", "img2img"}

\* EffectiveGuidance without the override of line 95
EffectiveGuidanceBase(m, base) == base

\* lines 74, 95: FLUX Fill overrides the user's guidance
EffectiveGuidance(m, base) ==
    IF IsFLUXFill(m) THEN FLUXFillGuidance ELSE base

\* lines 73-96
CheckFLUXFill ==
    /\ pc = "fill_check"
    /\ IF FillIncompatible(model, generationMode)
         THEN /\ Throw("UnsupportedGenerationModeError")
              /\ UNCHANGED guidance
         ELSE /\ guidance' = EffectiveGuidance(model, baseGuidance)
              /\ Goto("base")
    /\ UNCHANGED <<manager, inputVars, img2imgStrength,
                   optimizedDenoisingEnabled, denoising_start, graphVars,
                   canvasOutput, featureVars, shouldUseNSFWChecker,
                   shouldUseWatermarker, merges, calls, modeOutput>>

\* the ids of the base nodes: getPrefixedId is first called at line 100, for
\* the graph, then once for each base node, lines 101-134
ModelLoaderId == GetPrefixedId("flux_model_loader", 1)
PosCondId == GetPrefixedId("flux_text_encoder", 2)
PosCondCollectId == GetPrefixedId("pos_cond_collect", 3)
DenoiseId == GetPrefixedId("flux_denoise", 4)
L2iId == GetPrefixedId("flux_vae_decode", 5)

\* lines 101-134: the five base nodes
BaseNodes(g) ==
    (ModelLoaderId :> [type |-> "flux_model_loader"])
    @@ (PosCondId :> [type |-> "flux_text_encoder", prompt |-> "positivePrompt"])
    @@ (PosCondCollectId :> [type |-> "collect"])
    @@ (DenoiseId :> [type |-> "flux_denoise", guidance |-> g,
                      denoising_start |-> 0, denoising_end |-> Scale])
    @@ (L2iId :> [type |-> "flux_vae_decode"])

\* lines 136-145: the nine base edges
BaseEdges ==
    LET e1 == AddEdge({}, ModelLoaderId, "transformer", DenoiseId, "transformer")
        e2 == AddEdge(e1, ModelLoaderId, "vae", DenoiseId, "controlnet_vae")
        e3 == AddEdge(e2, ModelLoaderId, "vae", L2iId, "vae")
        e4 == AddEdge(e3, ModelLoaderId, "clip", PosCondId, "clip")
        e5 == AddEdge(e4, ModelLoaderId, "t5_encoder", PosCondId, "t5_encoder")
        e6 == AddEdge(e5, ModelLoaderId, "max_seq_len", PosCondId, "t5_max_seq_len")
        e7 == AddEdge(e6, PosCondId, "conditioning", PosCondCollectId, "item")
        e8 == AddEdge(e7, PosCondCollectId, "collection", DenoiseId,
                      "positive_text_conditioning")
    IN  AddEdge(e8, DenoiseId, "latents", L2iId, "latents")

\* lines 98-147: the graph is created and the base subgraph is added
AddBaseNodes ==
    /\ pc = "base"
    /\ nextId' = nextId + 6
    /\ nodes' = BaseNodes(guidance)
    /\ edges' = BaseEdges
    /\ Goto("base_metadata")
    /\ UNCHANGED <<manager, inputVars, guidance, img2imgStrength,
                   optimizedDenoisingEnabled, denoising_start, metadata,
                   metadataReceivingNode, canvasOutput, featureVars,
                   shouldUseNSFWChecker, shouldUseWatermarker, merges, calls,
                   modeOutput>>

\* lines 149-160: the record given to the first upsertMetadata
BaseMetadata(g) ==
    [guidance |-> g,
     width |-> "originalSize.width",
     height |-> "originalSize.height",
     positive_prompt |-> "positivePrompt",
     model |-> "model",
     seed |-> "seed",
     steps |-> "steps",
     vae |-> "fluxVAE",
     t5_encoder |-> "t5EncoderModel",
     clip_embed_model |-> "clipEmbedModel"]

\* lines 149-160
UpsertBaseMetadata ==
    /\ pc = "base_metadata"
    /\ metadata' = UpsertMetadata(metadata, BaseMetadata(guidance))
    /\ merges' = Append(merges, BaseMetadata(guidance))
    /\ Goto("denoising_start")
    /\ UNCHANGED <<manager, inputVars, guidance, img2imgStrength,
                   optimizedDenoisingEnabled, denoising_start, nextId, nodes,
                   edges, metadataReceivingNode, canvasOutput, featureVars,
                   shouldUseNSFWChecker, shouldUseWatermarker, calls,
                   modeOutput>>

RECURSIVE Pow(_, _)
\* b ** n for a natural n
Pow(b, n) == IF n = 0 THEN 1 ELSE b * Pow(b, n - 1)

RECURSIVE RootFrom(_, _)
\* the largest r >= from with (r / Scale) ** RescaleRoot <= x / Scale
RootFrom(x, from) ==
    IF Pow(from + 1, RescaleRoot) <= x * Pow(Scale, RescaleRoot - 1)
      THEN RootFrom(x, from + 1)
      ELSE from

\* line 167: img2imgStrength ** 0.2, in fixed point, rounded down
Pow02(x) == RootFrom(x, 0)

\* DenoisingStart with the linear rule whatever the toggle
DenoisingStartLinear(strength, optimized) == Scale - strength

\* lines 162-170
DenoisingStart(strength, optimized) ==
    IF optimized THEN Scale - Pow02(strength) ELSE Scale - strength

\* lines 162-170: denoising_start is computed from the strength and the toggle
ComputeDenoisingStart ==
    /\ pc = "denoising_start"
    /\ img2imgStrength' \in Strengths
    /\ optimizedDenoisingEnabled' \in BOOLEAN
    /\ denoising_start' = DenoisingStart(img2imgStrength', optimizedDenoisingEnabled')
    /\ canvasOutput' = L2iId
    /\ Goto("mode")
    /\ UNCHANGED <<manager, inputVars, guidance, graphVars, featureVars,
                   shouldUseNSFWChecker, shouldUseWatermarker, merges, calls,
                   modeOutput>>

\* the mode sub-builders (addFLUXFill, addTextToImage, addImageToImage,
\* addInpaint, addOutpaint): each hands back the node that now carries the
\* image, either the decoder itself or a node it adds after the decoder
ModeOutputId(fresh, n) ==
    IF fresh THEN GetPrefixedId("canvas_output", n) ELSE L2iId

\* the nodes of the graph after a mode sub-builder has run
ModeNodes(ns, fresh, n) ==
    IF fresh THEN AddNode(ns, ModeOutputId(fresh, n), [type |-> "canvas_output"])
             ELSE ns

\* the edges of the graph after a mode sub-builder has run
ModeEdges(es, fresh, n) ==
    IF fresh THEN AddEdge(es, L2iId, "image", ModeOutputId(fresh, n), "image")
             ELSE es

\* the record of one sub-builder call: what it was handed and what it returned
ModeCall(builder, handsStart, start, out) ==
    IF handsStart
      THEN [builder |-> builder, output |-> out, denoising_start |-> start]
      ELSE [builder |-> builder, output |-> out]

\* one branch of lines 174-242: the assert on the manager, the sub-builder
\* call that sets canvasOutput, and the upsert of generation_mode
ApplyModeBuilder(builder, needsManager, handsStart, generation_mode) ==
    IF needsManager /\ ~manager
      THEN /\ Throw("AssertionError")
           /\ UNCHANGED <<graphVars, canvasOutput, merges, calls, modeOutput>>
      ELSE \E fresh \in BOOLEAN :
             LET out == ModeOutputId(fresh, nextId)
                 m == [generation_mode |-> generation_mode]
             IN  /\ nodes' = ModeNodes(nodes, fresh, nextId)
                 /\ edges' = ModeEdges(edges, fresh, nextId)
                 /\ nextId' = IF fresh THEN nextId + 1 ELSE nextId
                 /\ canvasOutput' = out
                 /\ modeOutput' = out
                 /\ calls' = Append(calls,
                                ModeCall(builder, handsStart, denoising_start, out))
                 /\ IF generation_mode = "none"
                      THEN UNCHANGED <<metadata, merges>>
                      ELSE /\ metadata' = UpsertMetadata(metadata, m)
                           /\ merges' = Append(merges, m)
                 /\ Goto("control")
                 /\ UNCHANGED metadataReceivingNode

\* what every branch of lines 174-242 leaves alone
ModeFrame ==
    UNCHANGED <<manager, inputVars, guidance, img2imgStrength,
                optimizedDenoisingEnabled, denoising_start, featureVars,
                shouldUseNSFWChecker, shouldUseWatermarker>>

\* lines 174-184
AddFLUXFill ==
    /\ pc = "mode"
    /\ IsFLUXFill(model)
    /\ ApplyModeBuilder("addFLUXFill", TRUE, FALSE, "none")
    /\ ModeFrame

\* lines 185-187
AddTextToImage ==
    /\ pc = "mode"
    /\ ~IsFLUXFill(model)
    /\ generationMode = "txt2img"
    /\ ApplyModeBuilder("addTextToImage", FALSE, FALSE, "flux_txt2img")
    /\ ModeFrame

\* lines 188-203
AddImageToImage ==
    /\ pc = "mode"
    /\ ~IsFLUXFill(model)
    /\ generationMode = "img2img"
    /\ ApplyModeBuilder("addImageToImage", TRUE, TRUE, "flux_img2img")
    /\ ModeFrame

\* AddInpaint without the assert on the manager (line 205)
AddInpaintNoAssert ==
    /\ pc = "mode"
    /\ ~IsFLUXFill(model)
    /\ generationMode = "inpaint"
    /\ ApplyModeBuilder("addInpaint", FALSE, TRUE, "flux_inpaint")
    /\ ModeFrame

\* lines 204-221
AddInpaint ==
    /\ pc = "mode"
    /\ ~IsFLUXFill(model)
    /\ generationMode = "inpaint"
    /\ ApplyModeBuilder("addInpaint", TRUE, TRUE, "flux_inpaint")
    /\ ModeFrame

\* lines 222-239 (the else branch at 240-242 is a compile-time exhaustiveness
\* check: generationMode has no fifth value)
AddOutpaint ==
    /\ pc = "mode"
    /\ ~IsFLUXFill(model)
    /\ generationMode = "outpaint"
    /\ ApplyModeBuilder("addOutpaint", TRUE, TRUE, "flux_outpaint")
    /\ ModeFrame

\* the adapter sub-builders (addControlNets, addIPAdapters, addFLUXReduxes,
\* addRegions): each adds one node per item it wires, ids first..first+n-1
ItemNodes(ns, prefix, first, n) ==
    [i \in {GetPrefixedId(prefix, k) : k \in first..(first + n - 1)}
       |-> [type |-> prefix]] @@ ns

\* and connects each of them to the 'item' port of the feature's collector
ItemEdges(es, prefix, first, n, sourceField, collector) ==
    es \cup {[source |-> GetPrefixedId(prefix, k), sourceField |-> sourceField,
              dest |-> collector, destField |-> "item"]
               : k \in first..(first + n - 1)}

\* ConnectOrDeleteNodes without the deleteNode of the else branches
ConnectOrKeepNodes(ns, collector, count) == ns

\* lines 257-261, 317-321, 323-327, the node set: a collector that received
\* items stays, an unused collector is deleted
ConnectOrDeleteNodes(ns, collector, count) ==
    IF count > 0 THEN ns ELSE DeleteNode(ns, collector)

\* ConnectOrDeleteEdges with the addEdge moved out of the if: the collector
\* is connected whatever the count
ConnectAlwaysEdges(es, collector, count, destField) ==
    AddEdge(IF count > 0 THEN es ELSE DeleteEdgesOf(es, collector),
            collector, "collection", DenoiseId, destField)

\* lines 257-261, 317-321, 323-327, the edge set: a collector that received
\* items is connected to the given port of the denoise node
ConnectOrDeleteEdges(es, collector, count, destField) ==
    IF count > 0
      THEN AddEdge(es, collector, "collection", DenoiseId, destField)
      ELSE DeleteEdgesOf(es, collector)

\* lines 244-271: the control-net collector, only with a manager
AddControlAdapters ==
    /\ pc = "control"
    /\ IF manager
         THEN \E n \in 0..MaxControlNets :
                LET c == GetPrefixedId("control_net_collector", nextId)
                    ns1 == AddNode(nodes, c, [type |-> "collect"])
                    ns2 == ItemNodes(ns1, "control_net", nextId + 1, n)
                    es2 == ItemEdges(edges, "control_net", nextId + 1, n,
                                     "control", c)
                IN  /\ controlNetCollector' = c
                    /\ addedControlNets' = n
                    /\ nodes' = ConnectOrDeleteNodes(ns2, c, n)
                    /\ edges' = ConnectOrDeleteEdges(es2, c, n, "control")
                    /\ nextId' = nextId + 1 + n
         ELSE UNCHANGED <<controlNetCollector, addedControlNets, nodes, edges,
                          nextId>>
    /\ Goto("ip_adapters")
    /\ UNCHANGED <<manager, inputVars, guidance, img2imgStrength,
                   optimizedDenoisingEnabled, denoising_start, metadata,
                   metadataReceivingNode, canvasOutput, ipAdapterCollect,
                   ipAdapterResult, totalIPAdaptersAdded, fluxReduxCollect,
                   fluxReduxResult, totalReduxesAdded, regionsResult,
                   shouldUseNSFWChecker, shouldUseWatermarker, merges, calls,
                   modeOutput>>

\* lines 273-284: the IP-adapter collector and the global IP adapters
AddIPAdapters ==
    /\ pc = "ip_adapters"
    /\ \E n \in 0..MaxRefImages :
         LET c == GetPrefixedId("ip_adapter_collector", nextId)
             ns1 == AddNode(nodes, c, [type |-> "collect"])
         IN  /\ ipAdapterCollect' = c
             /\ ipAdapterResult' = n
             /\ totalIPAdaptersAdded' = n
             /\ nodes' = ItemNodes(ns1, "ip_adapter", nextId + 1, n)
             /\ edges' = ItemEdges(edges, "ip_adapter", nextId + 1, n,
                                   "ip_adapter", c)
             /\ nextId' = nextId + 1 + n
    /\ Goto("reduxes")
    /\ UNCHANGED <<manager, inputVars, guidance, img2imgStrength,
                   optimizedDenoisingEnabled, denoising_start, metadata,
                   metadataReceivingNode, canvasOutput, controlNetCollector,
                   addedControlNets, fluxReduxCollect, fluxReduxResult,
                   totalReduxesAdded, regionsResult, shouldUseNSFWChecker,
                   shouldUseWatermarker, merges, calls, modeOutput>>

\* lines 286-296: the FLUX-redux collector (its id has the prefix
\* 'ip_adapter_collector' too) and the global FLUX reduxes
AddFLUXReduxes ==
    /\ pc = "reduxes"
    /\ \E n \in 0..MaxRefImages :
         LET c == GetPrefixedId("ip_adapter_collector", nextId)
             ns1 == AddNode(nodes, c, [type |-> "collect"])
         IN  /\ fluxReduxCollect' = c
             /\ fluxReduxResult' = n
             /\ totalReduxesAdded' = n
             /\ nodes' = ItemNodes(ns1, "flux_redux", nextId + 1, n)
             /\ edges' = ItemEdges(edges, "flux_redux", nextId + 1, n,
                                   "redux_cond", c)
             /\ nextId' = nextId + 1 + n
    /\ Goto("regions")
    /\ UNCHANGED <<manager, inputVars, guidance, img2imgStrength,
                   optimizedDenoisingEnabled, denoising_start, metadata,
                   metadataReceivingNode, canvasOutput, controlNetCollector,
                   addedControlNets, ipAdapterCollect, ipAdapterResult,
                   totalIPAdaptersAdded, regionsResult, shouldUseNSFWChecker,
                   shouldUseWatermarker, merges, calls, modeOutput>>

\* what addRegions may return: per region, the adapters it wired (a region
\* with no reference image, with an IP adapter, or with a FLUX redux)
RegionResults ==
    { [addedIPAdapters |-> 0, addedFLUXReduxes |-> 0],
      [addedIPAdapters |-> 1, addedFLUXReduxes |-> 0],
      [addedIPAdapters |-> 0, addedFLUXReduxes |-> 1] }

RegionsResults == UNION {[1..k -> RegionResults] : k \in 0..MaxRegions}

RECURSIVE SumIPAdapters(_)
\* line 313: regionsResult.reduce((acc, r) => acc + r.addedIPAdapters, 0)
SumIPAdapters(rr) ==
    IF rr = << >> THEN 0 ELSE Head(rr).addedIPAdapters + SumIPAdapters(Tail(rr))

RECURSIVE SumFLUXReduxes(_)
\* line 314: regionsResult.reduce((acc, r) => acc + r.addedFLUXReduxes, 0)
SumFLUXReduxes(rr) ==
    IF rr = << >> THEN 0 ELSE Head(rr).addedFLUXReduxes + SumFLUXReduxes(Tail(rr))

\* lines 298-315: the regional adapters go to the two collectors and are
\* added to the totals, only with a manager
AddRegions ==
    /\ pc = "regions"
    /\ IF manager
         THEN \E rr \in RegionsResults :
                LET a == SumIPAdapters(rr)
                    b == SumFLUXReduxes(rr)
                    ns1 == ItemNodes(nodes, "ip_adapter", nextId, a)
                    es1 == ItemEdges(edges, "ip_adapter", nextId, a,
                                     "ip_adapter", ipAdapterCollect)
                IN  /\ regionsResult' = rr
                    /\ nodes' = ItemNodes(ns1, "flux_redux", nextId + a, b)
                    /\ edges' = ItemEdges(es1, "flux_redux", nextId + a, b,
                                          "redux_cond", fluxReduxCollect)
                    /\ nextId' = nextId + a + b
                    /\ totalIPAdaptersAdded' = totalIPAdaptersAdded + a
                    /\ totalReduxesAdded' = totalReduxesAdded + b
         ELSE UNCHANGED <<regionsResult, nodes, edges, nextId,
                          totalIPAdaptersAdded, totalReduxesAdded>>
    /\ Goto("connect_ip_adapters")
    /\ UNCHANGED <<manager, inputVars, guidance, img2imgStrength,
                   optimizedDenoisingEnabled, denoising_start, metadata,
                   metadataReceivingNode, canvasOutput, controlNetCollector,
                   addedControlNets, ipAdapterCollect, ipAdapterResult,
                   fluxReduxCollect, fluxReduxResult, shouldUseNSFWChecker,
                   shouldUseWatermarker, merges, calls, modeOutput>>

\* lines 317-321
ConnectIPAdapters ==
    /\ pc = "connect_ip_adapters"
    /\ nodes' = ConnectOrDeleteNodes(nodes, ipAdapterCollect, totalIPAdaptersAdded)
    /\ edges' = ConnectOrDeleteEdges(edges, ipAdapterCollect,
                                     totalIPAdaptersAdded, "ip_adapter")
    /\ Goto("connect_reduxes")
    /\ UNCHANGED <<manager, inputVars, guidance, img2imgStrength,
                   optimizedDenoisingEnabled, denoising_start, nextId,
                   metadata, metadataReceivingNode, canvasOutput, featureVars,
                   shouldUseNSFWChecker, shouldUseWatermarker, merges, calls,
                   modeOutput>>

\* lines 323-327
ConnectReduxes ==
    /\ pc = "connect_reduxes"
    /\ nodes' = ConnectOrDeleteNodes(nodes, fluxReduxCollect, totalReduxesAdded)
    /\ edges' = ConnectOrDeleteEdges(edges, fluxReduxCollect, totalReduxesAdded,
                                     "redux_conditioning")
    /\ Goto("nsfw")
    /\ UNCHANGED <<manager, inputVars, guidance, img2imgStrength,
                   optimizedDenoisingEnabled, denoising_start, nextId,
                   metadata, metadataReceivingNode, canvasOutput, featureVars,
                   shouldUseNSFWChecker, shouldUseWatermarker, merges, calls,
                   modeOutput>>

\* addNSFWChecker, addWatermarker, the node set: a post-processing node is added
PostProcessNodes(ns, prefix, n) ==
    AddNode(ns, GetPrefixedId(prefix, n), [type |-> prefix])

\* addNSFWChecker, addWatermarker, the edge set: the node takes its image from
\* the node that was the output
PostProcessEdges(es, prefix, n, imageOutput) ==
    AddEdge(es, imageOutput, "image", GetPrefixedId(prefix, n), "image")

\* AddNSFWChecker with the result of addNSFWChecker not assigned to
\* canvasOutput
AddNSFWCheckerUnassigned ==
    /\ pc = "nsfw"
    /\ shouldUseNSFWChecker' \in BOOLEAN
    /\ IF shouldUseNSFWChecker'
         THEN /\ nodes' = PostProcessNodes(nodes, "nsfw_checker", nextId)
              /\ edges' = PostProcessEdges(edges, "nsfw_checker", nextId,
                                           canvasOutput)
              /\ nextId' = nextId + 1
         ELSE UNCHANGED <<nodes, edges, nextId>>
    /\ Goto("watermark")
    /\ UNCHANGED <<manager, inputVars, guidance, img2imgStrength,
                   optimizedDenoisingEnabled, denoising_start, metadata,
                   metadataReceivingNode, canvasOutput, featureVars,
                   shouldUseWatermarker, merges, calls, modeOutput>>

\* lines 331-333
AddNSFWChecker ==
    /\ pc = "nsfw"
    /\ shouldUseNSFWChecker' \in BOOLEAN
    /\ IF shouldUseNSFWChecker'
         THEN /\ nodes' = PostProcessNodes(nodes, "nsfw_checker", nextId)
              /\ edges' = PostProcessEdges(edges, "nsfw_checker", nextId,
                                           canvasOutput)
              /\ canvasOutput' = GetPrefixedId("nsfw_checker", nextId)
              /\ nextId' = nextId + 1
         ELSE UNCHANGED <<nodes, edges, canvasOutput, nextId>>
    /\ Goto("watermark")
    /\ UNCHANGED <<manager, inputVars, guidance, img2imgStrength,
                   optimizedDenoisingEnabled, denoising_start, metadata,
                   metadataReceivingNode, featureVars, shouldUseWatermarker,
                   merges, calls, modeOutput>>

\* lines 335-337
AddWatermarker ==
    /\ pc = "watermark"
    /\ shouldUseWatermarker' \in BOOLEAN
    /\ IF shouldUseWatermarker'
         THEN /\ nodes' = PostProcessNodes(nodes, "watermarker", nextId)
              /\ edges' = PostProcessEdges(edges, "watermarker", nextId,
                                           canvasOutput)
              /\ canvasOutput' = GetPrefixedId("watermarker", nextId)
              /\ nextId' = nextId + 1
         ELSE UNCHANGED <<nodes, edges, canvasOutput, nextId>>
    /\ Goto("finish")
    /\ UNCHANGED <<manager, inputVars, guidance, img2imgStrength,
                   optimizedDenoisingEnabled, denoising_start, metadata,
                   metadataReceivingNode, featureVars, shouldUseNSFWChecker,
                   merges, calls, modeOutput>>

\* selectCanvasOutputFields: the output-field overrides
CanvasOutputFields == [is_intermediate |-> FALSE]

\* Graph.updateNode: the given fields are set on the node
UpdateNode(ns, id, fields) == [ns EXCEPT ![id] = fields @@ @]

\* FinalMetadata with the spread the other way round: a key already there
\* keeps its value
FinalMetadataKeepOld(md, cm) == md @@ cm

\* line 339: the metadata after the canvas metadata is merged
FinalMetadata(md, cm) == UpsertMetadata(md, cm)

\* ReceivingNode with the decoder in place of canvasOutput
ReceivingNodeL2i(output, l2i) == l2i

\* line 343: the node given to setMetadataReceivingNode
ReceivingNode(output, l2i) == output

\* lines 339-348: the canvas metadata is merged, the output node gets its
\* fields and receives the metadata, and the graph is returned
Finish ==
    /\ pc = "finish"
    /\ \E cm \in CanvasMetadatas :
         /\ metadata' = FinalMetadata(metadata, cm)
         /\ merges' = Append(merges, cm)
    /\ nodes' = UpdateNode(nodes, canvasOutput, CanvasOutputFields)
    /\ metadataReceivingNode' = ReceivingNode(canvasOutput, L2iId)
    /\ pc' = "done"
    /\ result' = "graph"
    /\ UNCHANGED <<manager, inputVars, guidance, img2imgStrength,
                   optimizedDenoisingEnabled, denoising_start, nextId, edges,
                   canvasOutput, featureVars, shouldUseNSFWChecker,
                   shouldUseWatermarker, error, calls, modeOutput>>

Next ==
    \/ ReadState
    \/ AssertModels
    \/ CheckFLUXFill
    \/ AddBaseNodes
    \/ UpsertBaseMetadata
    \/ ComputeDenoisingStart
    \/ AddFLUXFill
    \/ AddTextToImage
    \/ AddImageToImage
    \/ AddInpaint
    \/ AddOutpaint
    \/ AddControlAdapters
    \/ AddIPAdapters
    \/ AddFLUXReduxes
    \/ AddRegions
    \/ ConnectIPAdapters
    \/ ConnectReduxes
    \/ AddNSFWChecker
    \/ AddWatermarker
    \/ Finish

Spec == Init /\ [][Next]_vars

\* ------------------------------------------------------------------ claims

\* the build has read its inputs (lines 42-65)
InputsRead == pc # "start"

\* the build has ended: it threw or it returned
Ended == pc \in {"failed", "done"}

\* the steps after the mode dispatch of lines 174-242
AfterMode ==
    pc \in {"control", "ip_adapters", "reduxes", "regions",
            "connect_ip_adapters", "connect_reduxes", "nsfw", "watermark",
            "finish", "done"}

\* the model is a FLUX model and the three other components are there
AllComponents ==
    /\ model # NoModel
    /\ model.base = "flux"
    /\ t5EncoderModel
    /\ clipEmbedModel
    /\ fluxVAE

\* the model is the fill variant and the mode is one it does not work with
FillWithT2IOrI2I ==
    /\ model.variant = "inpaint"
    /\ generationMode \in {"txt2img", "img2img"}

\* C1 as stated: a build with the fill variant and the mode txt2img or img2img
\* raises UnsupportedGenerationModeError and returns no graph.
C1_Original ==
    (Ended /\ FillWithT2IOrI2I)
      => (error = "UnsupportedGenerationModeError" /\ result = "none")

\* C1, amended: a build with the fill variant and the mode txt2img or img2img
\* never gets past the check of line 88 and returns no graph; it ends with
\* UnsupportedGenerationModeError when the model components of lines 67-71
\* are all there, and with the assertion error of those lines otherwise.
C1_FillRejected ==
    (InputsRead /\ FillWithT2IOrI2I)
      => /\ pc \in {"assert", "fill_check", "failed"}
         /\ result = "none"
         /\ nodes = << >>
         /\ pc = "failed" =>
              error = IF AllComponents THEN "UnsupportedGenerationModeError"
                                       ELSE "AssertionError"

\* C1: the build was rejected for the fill variant, here in img2img with a manager
C1_Witness ==
    /\ pc = "failed"
    /\ error = "UnsupportedGenerationModeError"
    /\ model.variant = "inpaint"
    /\ generationMode = "img2img"
    /\ manager

\* C2: when a required model component is missing (the model, its FLUX base,
\* the T5 encoder, the CLIP embed model or the VAE), the build fails with the
\* assertion error before any node is created and returns no graph, in every
\* mode and with or without a manager.
C2_MissingComponentFails ==
    (InputsRead /\ ~AllComponents)
      => /\ pc \in {"assert", "failed"}
         /\ pc = "failed" => error = "AssertionError"
         /\ result = "none"
         /\ nodes = << >>
         /\ edges = {}
         /\ nextId = 0

\* C2: the build failed because only the VAE is missing
C2_Witness ==
    /\ pc = "failed"
    /\ error = "AssertionError"
    /\ model # NoModel
    /\ model.base = "flux"
    /\ t5EncoderModel
    /\ clipEmbedModel
    /\ ~fluxVAE
    /\ generationMode = "outpaint"

\* the branch of lines 174-242 that the build takes needs the manager
BranchNeedsManager ==
    model.variant = "inpaint" \/ generationMode # "txt2img"

\* C3: without a manager, a build that reaches a branch needing it fails with
\* the assertion error and returns no graph, although the base nodes and edges
\* are already in the graph under construction; without a manager only the
\* txt2img branch of a model that is not the fill variant gets further.
C3_NullManager ==
    /\ (pc = "failed" /\ ~manager /\ AllComponents /\ ~FillWithT2IOrI2I)
         => /\ BranchNeedsManager
            /\ error = "AssertionError"
            /\ result = "none"
            /\ {ModelLoaderId, PosCondId, PosCondCollectId, DenoiseId, L2iId}
                 \subseteq DOMAIN nodes
            /\ BaseEdges \subseteq edges
    /\ (AfterMode /\ ~manager)
         => /\ model.variant # "inpaint"
            /\ generationMode = "txt2img"
            /\ error = "none"

\* C3: an inpaint build without a manager failed after the base subgraph was added
C3_Witness ==
    /\ pc = "failed"
    /\ ~manager
    /\ generationMode = "inpaint"
    /\ model.variant = "normal"
    /\ error = "AssertionError"
    /\ DenoiseId \in DOMAIN nodes

\* the nodes wired to the 'item' port of a collector
ItemsOf(collector) ==
    {e.source : e \in {x \in edges : x.dest = collector /\ x.destField = "item"}}

\* the collector is in the graph and its 'collection' port feeds the given
\* port of the denoise node
Connected(collector, destField) ==
    /\ collector \in DOMAIN nodes
    /\ [source |-> collector, sourceField |-> "collection",
        dest |-> DenoiseId, destField |-> destField] \in edges

\* C4: in a returned graph, a collector (control net, IP adapter, FLUX redux)
\* whose feature wired no item is absent from the node set, and a collector
\* whose feature wired at least one item is present and connected from its
\* 'collection' port to the port 'control', 'ip_adapter' or
\* 'redux_conditioning' of the denoise node; the IP-adapter and redux counts
\* are the global count plus the counts of all regions.
C4_Collectors ==
    pc = "done" =>
      /\ totalIPAdaptersAdded = ipAdapterResult + SumIPAdapters(regionsResult)
      /\ totalReduxesAdded = fluxReduxResult + SumFLUXReduxes(regionsResult)
      /\ ~manager => (addedControlNets = 0 /\ regionsResult = << >>)
      /\ IF addedControlNets > 0
           THEN /\ Connected(controlNetCollector, "control")
                /\ Cardinality(ItemsOf(controlNetCollector)) = addedControlNets
           ELSE /\ controlNetCollector \notin DOMAIN nodes
                /\ \A e \in edges : e.destField # "control"
                /\ \A id \in DOMAIN nodes : id[1] # "control_net_collector"
      /\ IF totalIPAdaptersAdded > 0
           THEN /\ Connected(ipAdapterCollect, "ip_adapter")
                /\ Cardinality(ItemsOf(ipAdapterCollect)) = totalIPAdaptersAdded
           ELSE /\ ipAdapterCollect \notin DOMAIN nodes
                /\ \A e \in edges : e.destField # "ip_adapter"
      /\ IF totalReduxesAdded > 0
           THEN /\ Connected(fluxReduxCollect, "redux_conditioning")
                /\ Cardinality(ItemsOf(fluxReduxCollect)) = totalReduxesAdded
           ELSE /\ fluxReduxCollect \notin DOMAIN nodes
                /\ \A e \in edges : e.destField # "redux_conditioning"
      /\ Cardinality({id \in DOMAIN nodes : id[1] = "ip_adapter_collector"})
           = (IF totalIPAdaptersAdded > 0 THEN 1 ELSE 0)
             + (IF totalReduxesAdded > 0 THEN 1 ELSE 0)

\* C4: a graph was returned in which the control-net and redux collectors were
\* deleted and the IP-adapter collector is kept for a regional adapter alone
C4_Witness ==
    /\ pc = "done"
    /\ manager
    /\ addedControlNets = 0
    /\ totalReduxesAdded = 0
    /\ ipAdapterResult = 0
    /\ totalIPAdaptersAdded = 1
    /\ ipAdapterCollect \in DOMAIN nodes
    /\ fluxReduxCollect \notin DOMAIN nodes

\* the mode sub-builder that lines 174-242 choose for a model and a mode
BuilderFor(m, mode) ==
    IF m.variant = "inpaint" THEN "addFLUXFill"
    ELSE IF mode = "txt2img" THEN "addTextToImage"
    ELSE IF mode = "img2img" THEN "addImageToImage"
    ELSE IF mode = "inpaint" THEN "addInpaint"
    ELSE "addOutpaint"

\* there is an edge from the 'image' port of a to the 'image' port of b
ImageEdge(a, b) ==
    [source |-> a, sourceField |-> "image", dest |-> b, destField |-> "image"]
      \in edges

\* C5 as stated: in a returned graph exactly one mode sub-builder was applied
\* and the node it returned is the metadata-receiving node.
C5_Original ==
    pc = "done" =>
      /\ Len(calls) = 1
      /\ metadataReceivingNode = calls[1].output

\* C5, amended: in a returned graph exactly one mode sub-builder was applied,
\* the one for the model and the mode; the metadata-receiving node is the
\* final output node, which is the node that sub-builder returned when the
\* NSFW checker and the watermarker are both off, and otherwise the last
\* post-processing node appended after it.
C5_MetadataReceiver ==
    pc = "done" =>
      /\ Len(calls) = 1
      /\ calls[1].builder = BuilderFor(model, generationMode)
      /\ calls[1].output \in DOMAIN nodes
      /\ metadataReceivingNode = canvasOutput
      /\ metadataReceivingNode \in DOMAIN nodes
      /\ (~shouldUseNSFWChecker /\ ~shouldUseWatermarker)
           => metadataReceivingNode = calls[1].output
      /\ shouldUseWatermarker
           => nodes[metadataReceivingNode].type = "watermarker"
      /\ (shouldUseNSFWChecker /\ ~shouldUseWatermarker)
           => /\ nodes[metadataReceivingNode].type = "nsfw_checker"
              /\ ImageEdge(calls[1].output, metadataReceivingNode)

\* C5: a graph was returned whose metadata receiver is the NSFW checker put
\* after the node that addInpaint returned
C5_Witness ==
    /\ pc = "done"
    /\ calls[1].builder = "addInpaint"
    /\ shouldUseNSFWChecker
    /\ ~shouldUseWatermarker
    /\ metadataReceivingNode # calls[1].output
    /\ ImageEdge(calls[1].output, metadataReceivingNode)

\* the nodes of the given type
NodesOfType(type) == {id \in DOMAIN nodes : nodes[id].type = type}

\* both toggles have been read (lines 331-337)
TogglesRead == pc \in {"finish", "done"}

\* the final output, from the node the mode sub-builder returned and the toggles
C6_FinalOutput ==
    TogglesRead =>
      /\ Len(calls) = 1
      /\ calls[1].builder = BuilderFor(model, generationMode)
      /\ calls[1].output = modeOutput
      /\ modeOutput \in {L2iId, GetPrefixedId("canvas_output", 6)}
      /\ Cardinality(NodesOfType("nsfw_checker"))
           = (IF shouldUseNSFWChecker THEN 1 ELSE 0)
      /\ Cardinality(NodesOfType("watermarker"))
           = (IF shouldUseWatermarker THEN 1 ELSE 0)
      /\ (~shouldUseNSFWChecker /\ ~shouldUseWatermarker)
           => canvasOutput = modeOutput
      /\ (shouldUseNSFWChecker /\ ~shouldUseWatermarker)
           => /\ canvasOutput \in NodesOfType("nsfw_checker")
              /\ ImageEdge(modeOutput, canvasOutput)
      /\ (~shouldUseNSFWChecker /\ shouldUseWatermarker)
           => /\ canvasOutput \in NodesOfType("watermarker")
              /\ ImageEdge(modeOutput, canvasOutput)
      /\ (shouldUseNSFWChecker /\ shouldUseWatermarker)
           => /\ canvasOutput \in NodesOfType("watermarker")
              /\ \E k \in NodesOfType("nsfw_checker") :
                   ImageEdge(modeOutput, k) /\ ImageEdge(k, canvasOutput)

\* the steps that read the toggles leave the mode sub-builder's call, the node
\* it returned, the nodes and edges already there and the metadata as they are
C6_ToggleFrame ==
    pc \in {"nsfw", "watermark"} =>
      /\ calls' = calls
      /\ modeOutput' = modeOutput
      /\ metadata' = metadata
      /\ edges \subseteq edges'
      /\ \A id \in DOMAIN nodes : id \in DOMAIN nodes' /\ nodes'[id] = nodes[id]

\* C6: the NSFW and watermark toggles act independently and only on the final
\* output: with both off the final output is the node the mode sub-builder
\* returned; each enabled toggle appends its node after the current output
\* (NSFW checker first, then watermarker) and makes it the final output; the
\* sub-builder that ran and the node it returned do not depend on the toggles.
C6_PostProcessing == [] C6_FinalOutput /\ [][C6_ToggleFrame]_vars

\* C6: both toggles are on and the chain is mode output, NSFW checker, watermarker
C6_Witness ==
    /\ pc = "finish"
    /\ shouldUseNSFWChecker
    /\ shouldUseWatermarker
    /\ canvasOutput \in NodesOfType("watermarker")
    /\ modeOutput = GetPrefixedId("canvas_output", 6)
    /\ \E k \in NodesOfType("nsfw_checker") :
         ImageEdge(modeOutput, k) /\ ImageEdge(k, canvasOutput)

\* the keys contributed by the merges so far
MergedKeys == UNION {DOMAIN merges[i] : i \in 1..Len(merges)}

\* the last merge that contributed the key
LastMerge(k) ==
    CHOOSE i \in 1..Len(merges) :
      /\ k \in DOMAIN merges[i]
      /\ \A j \in (i + 1)..Len(merges) : k \notin DOMAIN merges[j]

\* the metadata is the union of the merges, the latest value of a key kept
C7_Union ==
    /\ DOMAIN metadata = MergedKeys
    /\ \A k \in DOMAIN metadata : metadata[k] = merges[LastMerge(k)][k]
    /\ pc = "done" =>
         /\ Len(merges) = (IF model.variant = "inpaint" THEN 2 ELSE 3)
         /\ DOMAIN merges[1]
              = {"guidance", "width", "height", "positive_prompt", "model",
                 "seed", "steps", "vae", "t5_encoder", "clip_embed_model"}
         /\ model.variant # "inpaint" => DOMAIN merges[2] = {"generation_mode"}
         /\ "canvas_v2_metadata" \in DOMAIN merges[Len(merges)]

\* no step removes a key from the metadata
C7_KeysGrow == DOMAIN metadata \subseteq DOMAIN metadata'

C8_Guidance ==
    pc = "done" =>
      /\ nodes[DenoiseId].guidance = merges[1].guidance
      /\ nodes[DenoiseId].guidance
           = (IF model.variant = "inpaint" THEN 30 ELSE baseGuidance)
      /\ model.variant = "inpaint" => generationMode \in {"inpaint", "outpaint"}

\* C8: a graph was returned for the fill variant, with guidance 30 in place of
\* the user's value
C8_Witness ==
    /\ pc = "done"
    /\ model.variant = "inpaint"
    /\ baseGuidance # 30
    /\ nodes[DenoiseId].guidance = 30
    /\ merges[1].guidance = 30

IsRescaledComplement(d, strength) ==
    LET r == Scale - d
        x == strength * Pow(Scale, 4)
    IN  /\ r \in 0..Scale
        /\ Pow(r, 5) <= x
        /\ Pow(r + 1, 5) > x

\* what the mode sub-builders were handed
C10_Handed ==
    \A i \in 1..Len(calls) :
      IF calls[i].builder \in {"addImageToImage", "addInpaint", "addOutpaint"}
        THEN /\ calls[i].denoising_start = denoising_start
             /\ img2imgStrength \in Strengths
             /\ IF optimizedDenoisingEnabled
                  THEN IsRescaledComplement(calls[i].denoising_start,
                                            img2imgStrength)
                  ELSE calls[i].denoising_start = Scale - img2imgStrength
        ELSE "denoising_start" \notin DOMAIN calls[i]

\* the step that reads the toggle sets denoising_start and nothing that
\* depends on the toggle; no other step changes what it set
C10_ToggleFrame ==
    IF pc = "denoising_start"
      THEN /\ canvasOutput' = L2iId
           /\ UNCHANGED <<manager, inputVars, guidance, graphVars, featureVars,
                          shouldUseNSFWChecker, shouldUseWatermarker, merges,
                          calls, modeOutput, error, result>>
      ELSE UNCHANGED <<denoising_start, img2imgStrength,
                       optimizedDenoisingEnabled>>

\* C10: the denoising_start handed to addImageToImage, addInpaint and
\* addOutpaint is 1 - strength ** 0.2 with the optimized-denoising toggle on
\* and 1 - strength with it off (in fixed point, denominator Scale); the
\* toggle changes nothing else.
C10_DenoisingStart == [] C10_Handed /\ [][C10_ToggleFrame]_vars

\* C10: addImageToImage was handed the rescaled value for strength 0.5, which
\* is not the linear one
C10_Witness ==
    /\ Len(calls) = 1
    /\ calls[1].builder = "addImageToImage"
    /\ optimizedDenoisingEnabled
    /\ img2imgStrength = Scale \div 2
    /\ IsRescaledComplement(calls[1].denoising_start, img2imgStrength)
    /\ calls[1].denoising_start # Scale - img2imgStrength

=============================================================================
